---- MODULE Spec2Model ----
(***************************************************************************)
(* Model of the reference normalization and segmentation engine           *)
(* (src/reference_processor.py, class ReferenceProcessor).                *)
(*                                                                         *)
(* A Python str is modelled as a sequence of characters.  A printable     *)
(* ASCII character is the one-character string itself; any other          *)
(* character is named by its code point, e.g. "U+5F20".  The processor    *)
(* is single-threaded and keeps no state between calls, so the state of   *)
(* the model is the call in progress: the method, its arguments and its   *)
(* return value; Return hands control back to the caller.  The window of  *)
(* the application (src/main.py, class ReferenceFormatterApp) adds its     *)
(* own state: the two text boxes, the stored markup and the clipboard.     *)
(* The history variable completed records which of the steps 1 and 2      *)
(* succeeded, in their order; no handler reads it.                         *)
(***************************************************************************)
EXTENDS Integers, Sequences, FiniteSets, TLC

VARIABLES
  op,   \* name of the method that has just run ("idle" between calls)
  arg,  \* its argument(s)
  ret,  \* its return value
  input_text,                 \* document of the input box of the window
  output_text,                \* document of the read-only output box
  html_output_for_clipboard,  \* markup stored by the last formatting
  clipboard,                  \* <<text, html>> put on the clipboard (<< >>: none yet)
  status_label,               \* what the last handler reported
  word_file_path,             \* path of the last file exported (<< >>: none)
  completed                   \* history: the steps 1 and 2 that succeeded, oldest first

processor_vars == <<op, arg, ret>>

ui_vars ==
  <<input_text, output_text, html_output_for_clipboard, clipboard,
    status_label, word_file_path, completed>>

vars == <<op, arg, ret, input_text, output_text, html_output_for_clipboard,
          clipboard, status_label, word_file_path, completed>>

----------------------------------------------------------------------------
(* Character classes used by the regular expressions and by str methods.   *)

\* [\u4e00-\u9fff]: the ideographs the model's inputs are drawn from.
CJK == {"U+5F20", "U+4E09", "U+56DB"}

\* [a-zA-Z]
AsciiLetters ==
  {"a", "b", "c", "d", "e", "f", "g", "h", "i", "j", "k", "l", "m",
   "n", "o", "p", "q", "r", "s", "t", "u", "v", "w", "x", "y", "z",
   "A", "B", "C", "D", "E", "F", "G", "H", "I", "J", "K", "L", "M",
   "N", "O", "P", "Q", "R", "S", "T", "U", "V", "W", "X", "Y", "Z"}

\* [0-9]
AsciiDigits == <<"0", "1", "2", "3", "4", "5", "6", "7", "8", "9">>

\* the full-width digits U+FF10..U+FF19
full_digits ==
  <<"U+FF10", "U+FF11", "U+FF12", "U+FF13", "U+FF14",
    "U+FF15", "U+FF16", "U+FF17", "U+FF18", "U+FF19">>

half_digits == AsciiDigits

Range(f) == {f[i] : i \in DOMAIN f}

\* \d of a str pattern: Unicode decimal digits (ASCII and full-width here).
IsDigit(c) == c \in Range(AsciiDigits) \cup Range(full_digits)

\* \s of a str pattern, and the characters str.strip() removes.
Whitespace ==
  {" ", "\t", "\n", "\r", "\f", "U+000B", "U+001C", "U+0085", "U+00A0",
   "U+2028", "U+3000"}

IsSpace(c) == c \in Whitespace

\* Membership of a character in a regex character class, by class name.
CharIn(c, cls) ==
  CASE cls = "cjk"           -> c \in CJK                       \* [\u4e00-\u9fff]
    [] cls = "not_cjk"       -> c \notin CJK                    \* [^\u4e00-\u9fff]
    [] cls = "alnum_space"   -> \/ c \in AsciiLetters           \* [a-zA-Z0-9\s]
                                \/ c \in Range(AsciiDigits)
                                \/ IsSpace(c)
    [] cls = "not_cjk_space" -> c \notin CJK /\ ~IsSpace(c)     \* [^\u4e00-\u9fff\s]
    [] cls = "space"         -> IsSpace(c)                      \* \s
    [] cls = "digit"         -> IsDigit(c)                      \* \d

----------------------------------------------------------------------------
(* str helpers.                                                            *)

\* s[i:j] with 1-based inclusive bounds
Slice(s, i, j) == IF i > j THEN << >> ELSE SubSeq(s, i, j)

\* index of the first character at or after i that is not in cls
\* (Len(s) + 1 when there is none): the end of a greedy cls* from i
RECURSIVE SkipClass(_, _, _)
SkipClass(s, i, cls) ==
  IF i <= Len(s) /\ CharIn(s[i], cls) THEN SkipClass(s, i + 1, cls) ELSE i

\* index of the last character at or before j that is not whitespace (0 if none)
RECURSIVE SkipSpaceBack(_, _)
SkipSpaceBack(s, j) ==
  IF j >= 1 /\ IsSpace(s[j]) THEN SkipSpaceBack(s, j - 1) ELSE j

\* str.strip()
Strip(s) == Slice(s, SkipClass(s, 1, "space"), SkipSpaceBack(s, Len(s)))

\* the first index j in i..Len(s) with Test(j) (Len(s) + 1 when there is
\* none): where a left-to-right scan from i stops
FirstIndex(s, i, Test(_)) ==
  IF \E j \in i..Len(s) : Test(j)
  THEN CHOOSE j \in i..Len(s) : Test(j) /\ \A h \in i..(j - 1) : ~Test(h)
  ELSE Len(s) + 1

\* for old, new in table.items(): s = s.replace(old, new), as it acts on one
\* character c from entry k on: the first entry at or after k whose key is c
\* turns c into its value, and the entries after that one act on the value
RECURSIVE ReplaceChar(_, _, _)
ReplaceChar(c, table, k) ==
  LET j == FirstIndex(table, k, LAMBDA h : table[h][1] = c)
  IN  IF j > Len(table) THEN c ELSE ReplaceChar(table[j][2], table, j + 1)

\* for old, new in table.items(): s = s.replace(old, new), with keys and
\* values of one character each: every character of s goes through the
\* entries in their order
RECURSIVE ReplaceAll(_, _, _)
ReplaceAll(s, table, k) ==
  IF s = << >> THEN << >>
  ELSE << ReplaceChar(Head(s), table, k) >> \o ReplaceAll(Tail(s), table, k)

\* "".join(parts)
RECURSIVE Concat(_)
Concat(parts) ==
  IF parts = << >> THEN << >> ELSE Head(parts) \o Concat(Tail(parts))

\* sep.join(parts)
RECURSIVE Join(_, _)
Join(parts, sep) ==
  IF parts = << >> THEN << >>
  ELSE IF Len(parts) = 1 THEN parts[1]
  ELSE parts[1] \o sep \o Join(Tail(parts), sep)

\* index of the first sep at or after i (Len(s) + 1 when there is none)
FindChar(s, i, sep) == FirstIndex(s, i, LAMBDA j : s[j] = sep)

\* s.split(sep) for a one-character sep, scanning from index i
RECURSIVE SplitFrom(_, _, _)
SplitFrom(s, i, sep) ==
  LET j == FindChar(s, i, sep)
  IN  IF j > Len(s) THEN << Slice(s, i, Len(s)) >>
      ELSE << Slice(s, i, j - 1) >> \o SplitFrom(s, j + 1, sep)

Split(s, sep) == SplitFrom(s, 1, sep)

\* re.sub(r'\s+', ' ', s)
RECURSIVE CollapseFrom(_, _)
CollapseFrom(s, i) ==
  IF i > Len(s) THEN << >>
  ELSE IF IsSpace(s[i])
       THEN << " " >> \o CollapseFrom(s, SkipClass(s, i, "space"))
       ELSE << s[i] >> \o CollapseFrom(s, i + 1)

CollapseWhitespace(s) == CollapseFrom(s, 1)

----------------------------------------------------------------------------
(* Character normalizer.                                                   *)

CHAR_MAPPING ==
  <<
    <<"U+FF10", "0">>, <<"U+FF11", "1">>, <<"U+FF12", "2">>, <<"U+FF13", "3">>,
    <<"U+56DB", "4">>, <<"U+FF15", "5">>, <<"U+FF16", "6">>, <<"U+FF17", "7">>,
    <<"U+FF18", "8">>, <<"U+FF19", "9">>, <<"U+FF08", "(">>, <<"U+FF09", ")">>,
    <<"U+3010", "[">>, <<"U+3011", "]">>, <<"U+2014", "-">>, <<"U+2013", "-">>,
    <<"U+2015", "-">>, <<"U+FF0E", ".">>, <<"U+FF1A", ":">>, <<"U+FF1B", ";">>,
    <<"U+FF0C", ",">>, <<"U+3002", ".">>, <<"U+FF1F", "?">>, <<"U+FF01", "!">>,
    <<"U+FF20", "@">>, <<"U+FF03", "#">>, <<"U+FF04", "$">>, <<"U+FF05", "%">>,
    <<"U+FF3E", "^">>, <<"U+FF06", "&">>, <<"U+FF0A", "*">>, <<"U+FF0B", "+">>,
    <<"U+FF1D", "=">>, <<"U+FF5E", "~">>, <<"U+3000", " ">>
  >>

\* the table with the middle dot sent to the full-width full stop, which
\* the entry before it has already replaced
full_to_half_chained ==
  <<
    <<"U+FF0C", ",">>, <<"U+3002", ".">>, <<"U+FF1A", ":">>, <<"U+FF1B", ";">>,
    <<"U+FF1F", "?">>, <<"U+FF01", "!">>, <<"U+FF08", "(">>, <<"U+FF09", ")">>,
    <<"U+3010", "[">>, <<"U+3011", "]">>, <<"U+2015", "-">>, <<"U+2013", "-">>,
    <<"U+2014", "-">>, <<"U+FF0E", ".">>, <<"U+00B7", "U+FF0E">>, <<"U+2236", ":">>,
    <<"U+FF20", "@">>, <<"U+FF03", "#">>, <<"U+FF04", "$">>, <<"U+FF05", "%">>,
    <<"U+FF3E", "^">>, <<"U+FF06", "&">>, <<"U+FF0A", "*">>, <<"U+FF0B", "+">>,
    <<"U+FF1D", "=">>, <<"U+FF5E", "~">>, <<"U+3000", " ">>
  >>

full_to_half ==
  <<
    <<"U+FF0C", ",">>, <<"U+3002", ".">>, <<"U+FF1A", ":">>, <<"U+FF1B", ";">>,
    <<"U+FF1F", "?">>, <<"U+FF01", "!">>, <<"U+FF08", "(">>, <<"U+FF09", ")">>,
    <<"U+3010", "[">>, <<"U+3011", "]">>, <<"U+2015", "-">>, <<"U+2013", "-">>,
    <<"U+2014", "-">>, <<"U+FF0E", ".">>, <<"U+00B7", ".">>, <<"U+2236", ":">>,
    <<"U+FF20", "@">>, <<"U+FF03", "#">>, <<"U+FF04", "$">>, <<"U+FF05", "%">>,
    <<"U+FF3E", "^">>, <<"U+FF06", "&">>, <<"U+FF0A", "*">>, <<"U+FF0B", "+">>,
    <<"U+FF1D", "=">>, <<"U+FF5E", "~">>, <<"U+3000", " ">>
  >>

half_to_full ==
  <<
    <<",", "U+FF0C">>, <<".", "U+3002">>, <<":", "U+FF1A">>, <<";", "U+FF1B">>,
    <<"?", "U+FF1F">>, <<"!", "U+FF01">>, <<"(", "U+FF08">>, <<")", "U+FF09">>,
    <<"[", "U+3010">>, <<"]", "U+3011">>
  >>

\* text.translate(str.maketrans(full_digits, half_digits))
RECURSIVE digit_mapping(_)
digit_mapping(text) ==
  IF text = << >> THEN << >>
  ELSE << IF \E d \in 1..Len(full_digits) : Head(text) = full_digits[d]
          THEN half_digits[CHOOSE d \in 1..Len(full_digits) : Head(text) = full_digits[d]]
          ELSE Head(text) >>
         \o digit_mapping(Tail(text))

_normalize_english_punctuation(text) ==
  ReplaceAll(digit_mapping(text), full_to_half, 1)

_normalize_chinese_punctuation(text) ==
  ReplaceAll(text, half_to_full, 1)

\* pattern.finditer over ([\u4e00-\u9fff]+)|([^\u4e00-\u9fff]+): each match
\* normalized by the function of its group
RECURSIVE NormalizeParts(_, _)
NormalizeParts(s, i) ==
  IF i > Len(s) THEN << >>
  ELSE IF CharIn(s[i], "cjk")
       THEN LET j == SkipClass(s, i, "cjk")
            IN  << _normalize_chinese_punctuation(Slice(s, i, j - 1)) >>
                  \o NormalizeParts(s, j)
       ELSE LET j == SkipClass(s, i, "not_cjk")
            IN  << _normalize_english_punctuation(Slice(s, i, j - 1)) >>
                  \o NormalizeParts(s, j)

_normalize_characters(line) ==
  LET mapped == ReplaceAll(line, CHAR_MAPPING, 1)
      parts  == NormalizeParts(mapped, 1)
  IN  Strip(CollapseWhitespace(Concat(parts)))

----------------------------------------------------------------------------
(* Numbering stripper.                                                     *)

\* the alternation without \(\d+\)
MarkerEnd_no_parenthesis(s, i) ==
  LET d1 == SkipClass(s, i + 1, "digit")
      d0 == SkipClass(s, i, "digit")
  IN  IF i > Len(s) THEN 0
      ELSE IF s[i] = "[" /\ d1 > i + 1 /\ d1 <= Len(s) /\ s[d1] = "]" THEN d1 + 1
      ELSE IF d0 > i /\ d0 <= Len(s) /\ s[d0] = "." THEN d0 + 1
      ELSE 0

\* end of a match of \[\d+\] | \(\d+\) | \d+\. starting at index i
\* (the index after the marker), or 0 when none of the three matches there
MarkerEnd(s, i) ==
  LET d1 == SkipClass(s, i + 1, "digit")   \* after the digits of [n] or (n)
      d0 == SkipClass(s, i, "digit")       \* after the digits of n.
  IN  IF i > Len(s) THEN 0
      ELSE IF s[i] = "[" /\ d1 > i + 1 /\ d1 <= Len(s) /\ s[d1] = "]" THEN d1 + 1
      ELSE IF s[i] = "(" /\ d1 > i + 1 /\ d1 <= Len(s) /\ s[d1] = ")" THEN d1 + 1
      ELSE IF d0 > i /\ d0 <= Len(s) /\ s[d0] = "." THEN d0 + 1
      ELSE 0

\* a pattern without the leading \s*: the marker must open the line
numbering_pattern_anchored(line) ==
  LET stop == MarkerEnd(line, 1)
  IN  IF stop = 0
      THEN [matched |-> FALSE, start |-> 0, stop |-> 0, end |-> 0]
      ELSE [matched |-> TRUE, start |-> 1, stop |-> stop,
            end |-> SkipClass(line, stop, "space")]

\* numbering_pattern.match(line): ^\s*(\[\d+\]|\(\d+\)|\d+\.)\s*
\* [start, stop) is group(1), end is match.end(); matched is FALSE on None
numbering_pattern(line) ==
  LET start == SkipClass(line, 1, "space")
      stop  == MarkerEnd(line, start)
  IN  IF stop = 0
      THEN [matched |-> FALSE, start |-> 0, stop |-> 0, end |-> 0]
      ELSE [matched |-> TRUE, start |-> start, stop |-> stop,
            end |-> SkipClass(line, stop, "space")]

\* str.strip(chars)
RECURSIVE StripChars(_, _)
StripChars(s, chars) ==
  IF s # << >> /\ Head(s) \in chars THEN StripChars(Tail(s), chars)
  ELSE IF s # << >> /\ s[Len(s)] \in chars
       THEN StripChars(SubSeq(s, 1, Len(s) - 1), chars)
       ELSE s

\* a conversion that yields no number
ToInt_none(number_str) == -1

\* value of a decimal digit character
DigitValue(c) ==
  IF c \in Range(AsciiDigits)
  THEN (CHOOSE d \in 1..Len(AsciiDigits) : AsciiDigits[d] = c) - 1
  ELSE (CHOOSE d \in 1..Len(full_digits) : full_digits[d] = c) - 1

\* int(number_str); 0 where int raises ValueError
RECURSIVE ToInt(_)
ToInt(number_str) ==
  IF number_str = << >> \/ \E k \in 1..Len(number_str) : ~IsDigit(number_str[k])
  THEN 0
  ELSE IF Len(number_str) = 1 THEN DigitValue(number_str[1])
  ELSE ToInt(SubSeq(number_str, 1, Len(number_str) - 1)) * Len(AsciiDigits)
         + DigitValue(number_str[Len(number_str)])

\* returns (cleaned line, was stripped, extracted number)
_strip_numbering(line) ==
  LET match == numbering_pattern(line)
  IN  IF match.matched
      THEN LET number_str ==
                 StripChars(Slice(line, match.start, match.stop - 1),
                            {"[", "]", "(", ")", " ", "."})
           IN  << Strip(Slice(line, match.end, Len(line))), TRUE, ToInt(number_str) >>
      ELSE << Strip(line), FALSE, 0 >>

----------------------------------------------------------------------------
(* html.escape and html.unescape.                                          *)

\* s.replace(old, new) for a one-character old and a string new, from index
\* i: the text before the next old is kept, old is replaced
RECURSIVE ReplaceFrom(_, _, _, _)
ReplaceFrom(s, i, old, new) ==
  LET a == FindChar(s, i, old)
  IN  IF a > Len(s) THEN Slice(s, i, Len(s))
      ELSE Slice(s, i, a - 1) \o new \o ReplaceFrom(s, a + 1, old, new)

ReplaceStr(s, old, new) == ReplaceFrom(s, 1, old, new)

\* html.escape(s, quote=True): & first, then < > " '
Escape(s) ==
  LET s1 == ReplaceStr(s, "&", <<"&", "a", "m", "p", ";">>)
      s2 == ReplaceStr(s1, "<", <<"&", "l", "t", ";">>)
      s3 == ReplaceStr(s2, ">", <<"&", "g", "t", ";">>)
      s4 == ReplaceStr(s3, "\"", <<"&", "q", "u", "o", "t", ";">>)
  IN  ReplaceStr(s4, "'", <<"&", "#", "x", "2", "7", ";">>)

\* The character references html.escape writes, as html.unescape reads them:
\* the html5 table holds amp, lt, gt and quot with and without the final
\* ';'.  No other reference can be spelled by the inputs of the model.
html5 ==
  << << <<"a", "m", "p", ";">>, "&" >>,      << <<"a", "m", "p">>, "&" >>,
     << <<"l", "t", ";">>, "<" >>,           << <<"l", "t">>, "<" >>,
     << <<"g", "t", ";">>, ">" >>,           << <<"g", "t">>, ">" >>,
     << <<"q", "u", "o", "t", ";">>, "\"" >>, << <<"q", "u", "o", "t">>, "\"" >> >>

InHtml5(name) == \E k \in 1..Len(html5) : html5[k][1] = name

Html5Value(name) == html5[CHOOSE k \in 1..Len(html5) : html5[k][1] = name][2]

\* end of [^\t\n\f <&#;]{1,32} from index i
RECURSIVE NameEnd(_, _, _)
NameEnd(s, i, n) ==
  IF i <= Len(s) /\ n < 32 /\ s[i] \notin {"\t", "\n", "\f", " ", "<", "&", "#", ";"}
  THEN NameEnd(s, i + 1, n + 1)
  ELSE i

\* replace_charref for a named reference: the name itself, else its longest
\* prefix of two or more characters that is in the table, else unchanged
RECURSIVE NamedCharref(_, _)
NamedCharref(name, x) ==
  IF x < 2 THEN << "&" >> \o name
  ELSE IF InHtml5(SubSeq(name, 1, x))
       THEN << Html5Value(SubSeq(name, 1, x)) >> \o SubSeq(name, x + 1, Len(name))
       ELSE NamedCharref(name, x - 1)

\* html.unescape(s): one left-to-right pass of
\* &(#[0-9]+;?|#[xX][0-9a-fA-F]+;?|[^\t\n\f <&#;]{1,32};?)
\* from index i; a is the next '&', the text before it is kept
RECURSIVE UnescapeFrom(_, _)
UnescapeFrom(s, i) ==
  LET a == FindChar(s, i, "&")
  IN  IF a > Len(s) THEN Slice(s, i, Len(s))
      ELSE Slice(s, i, a - 1) \o
        (IF a + 4 <= Len(s) /\ SubSeq(s, a + 1, a + 4) = <<"#", "x", "2", "7">>
            /\ (a + 5 > Len(s) \/ s[a + 5] \notin Range(AsciiDigits) \cup AsciiLetters)
         THEN << "'" >>
                \o UnescapeFrom(s, IF a + 5 <= Len(s) /\ s[a + 5] = ";"
                                   THEN a + 6 ELSE a + 5)
         ELSE LET e    == NameEnd(s, a + 1, 0)
                  stop == IF e > a + 1 /\ e <= Len(s) /\ s[e] = ";" THEN e + 1 ELSE e
              IN  IF e = a + 1 THEN << "&" >> \o UnescapeFrom(s, a + 1)
                  ELSE NamedCharref(SubSeq(s, a + 1, stop - 1), stop - a - 1)
                         \o UnescapeFrom(s, stop))

Unescape(s) == UnescapeFrom(s, 1)

----------------------------------------------------------------------------
(* Mixed-script run splitter.                                              *)

CHINESE_FONT == "SimSun"
ENGLISH_FONT == "Times New Roman"

\* The style attribute of a run's span.  Its text holds no '<', '>' or '&',
\* so it is kept as one element of the markup.
SpanStyle(font) ==
  IF font = CHINESE_FONT THEN "style=\"font-family: 'SimSun'; mso-...\""
  ELSE "style=\"font-family: 'Times New Roman'; mso-...\""

\* f'<span style="...">{escaped_content}</span>'
Span(font, escaped_content) ==
  <<"<", "s", "p", "a", "n", " ", SpanStyle(font), ">">>
    \o escaped_content
    \o <<"<", "/", "s", "p", "a", "n", ">">>

\* any(c in CHINESE_PUNCT for c in punctuation_part)
ChinesePunct == {"U+FF0C", "U+3002", "U+FF1A", "U+FF1B", "U+FF01", "U+FF1F"}

is_chinese_punct(punctuation_part) ==
  \E k \in 1..Len(punctuation_part) : punctuation_part[k] \in ChinesePunct

\* [a-zA-Z0-9] only: whitespace belongs to no group
EnglishGroupNoSpace(c) == c \in AsciiLetters \/ c \in Range(AsciiDigits)

\* group 2 of the run pattern: [a-zA-Z0-9\s]
EnglishGroup(c) == CharIn(c, "alnum_space")

\* end of a greedy [a-zA-Z0-9\s]+ from index i
RECURSIVE SkipEnglish(_, _)
SkipEnglish(s, i) ==
  IF i <= Len(s) /\ EnglishGroup(s[i]) THEN SkipEnglish(s, i + 1) ELSE i

\* pattern.finditer over
\*   ([\u4e00-\u9fff]+)|([a-zA-Z0-9\s]+)|([^\u4e00-\u9fff\s]+)
\* the matches in order, each with the number of the group that matched;
\* a character no group matches is skipped
RECURSIVE FontRuns(_, _)
FontRuns(s, i) ==
  IF i > Len(s) THEN << >>
  ELSE IF CharIn(s[i], "cjk")
       THEN LET j == SkipClass(s, i, "cjk")
            IN  << [group |-> 1, text |-> Slice(s, i, j - 1)] >> \o FontRuns(s, j)
  ELSE IF EnglishGroup(s[i])
       THEN LET j == SkipEnglish(s, i)
            IN  << [group |-> 2, text |-> Slice(s, i, j - 1)] >> \o FontRuns(s, j)
  ELSE IF CharIn(s[i], "not_cjk_space")
       THEN LET j == SkipClass(s, i, "not_cjk_space")
            IN  << [group |-> 3, text |-> Slice(s, i, j - 1)] >> \o FontRuns(s, j)
  ELSE FontRuns(s, i + 1)

\* the font of a punctuation run decided by its first character alone
RunFont_by_first(run) ==
  IF run.group = 1 THEN CHINESE_FONT
  ELSE IF run.group = 2 THEN ENGLISH_FONT
  ELSE IF run.text[1] \in ChinesePunct THEN CHINESE_FONT ELSE ENGLISH_FONT

\* the font a match is tagged with
RunFont(run) ==
  IF run.group = 1 THEN CHINESE_FONT
  ELSE IF run.group = 2 THEN ENGLISH_FONT
  ELSE IF is_chinese_punct(run.text) THEN CHINESE_FONT ELSE ENGLISH_FONT

_apply_mixed_font_styles(line) ==
  LET runs == FontRuns(line, 1)
  IN  Concat([k \in 1..Len(runs) |-> Span(RunFont(runs[k]), Escape(runs[k].text))])

----------------------------------------------------------------------------
(* Boundary detector.                                                      *)

\* re.match(r'^\[\d+\]', s) and re.match(r'^\(\d+\)', s)
MatchesEnclosed(s, open, close) ==
  LET d == SkipClass(s, 2, "digit")
  IN  Len(s) >= 1 /\ s[1] = open /\ d > 2 /\ d <= Len(s) /\ s[d] = close

\* re.match(r'^\d+\.', s)
MatchesDotted(s) ==
  LET d == SkipClass(s, 1, "digit")
  IN  d > 1 /\ d <= Len(s) /\ s[d] = "."

\* the list without its third pattern, ^\(\d+\)
_has_formatted_numbering_two(line) ==
  \/ MatchesEnclosed(Strip(line), "[", "]")
  \/ MatchesDotted(Strip(line))

\* the list without its second pattern, ^\d+\.
_has_formatted_numbering_enclosed(line) ==
  \/ MatchesEnclosed(Strip(line), "[", "]")
  \/ MatchesEnclosed(Strip(line), "(", ")")

\* any pattern of formatted_patterns matches line.strip()
_has_formatted_numbering(line) ==
  \/ MatchesEnclosed(Strip(line), "[", "]")
  \/ MatchesDotted(Strip(line))
  \/ MatchesEnclosed(Strip(line), "(", ")")

\* is_new_block of the loop body, for the line at 1-based index i >= 2
is_new_block(lines, i) ==
  LET current_stripped == Strip(lines[i])
  IN  /\ current_stripped # << >>
      /\ \/ _has_formatted_numbering(current_stripped)
         \/ Strip(lines[i - 1]) = << >>

\* the loop with the first line judged by the numbering rule like every
\* other line
RECURSIVE DetectUnseededFrom(_, _)
DetectUnseededFrom(lines, i) ==
  IF i > Len(lines) THEN << >>
  ELSE << << lines[i],
             IF i = 1
             THEN Strip(lines[i]) # << >> /\ _has_formatted_numbering(lines[i])
             ELSE is_new_block(lines, i) >> >>
         \o DetectUnseededFrom(lines, i + 1)

_detect_boundary_lines_unseeded(lines) == DetectUnseededFrom(lines, 1)

\* the loop over enumerate(lines) from index i: the first line always
\* starts a block
RECURSIVE DetectFrom(_, _)
DetectFrom(lines, i) ==
  IF i > Len(lines) THEN << >>
  ELSE << << lines[i], IF i = 1 THEN TRUE ELSE is_new_block(lines, i) >> >>
         \o DetectFrom(lines, i + 1)

\* the list of (line, is_start) pairs
_detect_boundary_lines(lines) == DetectFrom(lines, 1)

----------------------------------------------------------------------------
(* List renderer.                                                          *)

\* str(i) for i >= 0
RECURSIVE ToDecimal(_)
ToDecimal(i) ==
  IF i < Len(AsciiDigits) THEN << AsciiDigits[i + 1] >>
  ELSE ToDecimal(i \div Len(AsciiDigits)) \o << AsciiDigits[(i % Len(AsciiDigits)) + 1] >>

\* n spaces of indentation of a template
Indent(n) == [k \in 1..n |-> " "]

\* enumerate(references) without its start argument: numbering from 0
_generate_plain_text_list_from_zero(references) ==
  Join([i \in 1..Len(references) |->
          ToDecimal(i - 1) \o <<".", " ">> \o Unescape(references[i])],
       << "\n" >>)

\* the prefix written without its full stop
_generate_plain_text_list_no_dot(references) ==
  Join([i \in 1..Len(references) |->
          ToDecimal(i) \o <<" ">> \o Unescape(references[i])],
       << "\n" >>)

\* the references written in reverse order
_generate_plain_text_list_reversed(references) ==
  Join([i \in 1..Len(references) |->
          ToDecimal(i) \o <<".", " ">>
            \o Unescape(references[Len(references) + 1 - i])],
       << "\n" >>)

\* "\n".join(f"{i}. {html.unescape(ref)}" for i, ref in enumerate(references, 1))
_generate_plain_text_list(references) ==
  Join([i \in 1..Len(references) |->
          ToDecimal(i) \o <<".", " ">> \o Unescape(references[i])],
       << "\n" >>)

\* One <li> of the list.  An attribute value, the style sheet and the text
\* of a conditional comment hold no '<', '>' or '&' and are kept as one
\* element of the markup each.
ListItem(styled_html_content) ==
  << "\n" >> \o Indent(12)
    \o <<"<", "l", "i", " ", "style=\"margin-bottom: 6pt;\"", ">">>
    \o << "\n" >> \o Indent(16) \o styled_html_content
    \o << "\n" >> \o Indent(12) \o <<"<", "/", "l", "i", ">">>
    \o << "\n" >> \o Indent(12)

\* '<!--[endif]--><!--[if supportLists]-->'
ItemSeparator ==
  <<"<", "!--[endif]--", ">", "<", "!--[if supportLists]--", ">">>

HtmlHead ==
  << "\n" >> \o Indent(8) \o <<"<", "h", "t", "m", "l", " ", "xmlns:o=... xmlns:w=... xmlns:m=...", ">">>
    \o << "\n" >> \o Indent(8) \o <<"<", "h", "e", "a", "d", ">">>
    \o << "\n" >> \o Indent(12) \o <<"<", "m", "e", "t", "a", " ", "charset=\"UTF-8\"", ">">>
    \o << "\n" >> \o Indent(12)
    \o << "\n" >> \o Indent(8) \o <<"<", "s", "t", "y", "l", "e", ">">>
    \o <<"ol {...} li {...} li:before {...} @list l0:level1 {...}">>
    \o <<"<", "/", "s", "t", "y", "l", "e", ">">>
    \o << "\n" >> \o Indent(8)
    \o << "\n" >> \o Indent(8) \o <<"<", "/", "h", "e", "a", "d", ">">>

HtmlBodyOpen ==
  << "\n" >> \o Indent(8) \o <<"<", "b", "o", "d", "y", ">">>
    \o << "\n" >> \o Indent(8) \o <<"<", "!--[if supportLists]", ">">>
    \o << "\n" >> \o Indent(8)
    \o <<"<", "o", "l", " ", "style=\"list-style-type: decimal;\"", ">">>
    \o << "\n" >> \o Indent(8) \o <<"<", "![endif]--", ">">>
    \o << "\n" >> \o Indent(8) \o <<"<", "!--[if supportLists]", ">", "<", "!--", ">">>
    \o << "\n" >> \o Indent(8)

HtmlBodyClose ==
  << "\n" >> \o Indent(8) \o <<"<", "!--[endif]--", ">">>
    \o << "\n" >> \o Indent(8) \o <<"<", "!--[if supportLists]", ">">>
    \o << "\n" >> \o Indent(8) \o <<"<", "/", "o", "l", ">">>
    \o << "\n" >> \o Indent(8) \o <<"<", "![endif]--", ">">>
    \o << "\n" >> \o Indent(8) \o <<"<", "/", "b", "o", "d", "y", ">">>
    \o << "\n" >> \o Indent(8) \o <<"<", "/", "h", "t", "m", "l", ">">>
    \o << "\n" >> \o Indent(8)

_generate_html_list(styled_html_references) ==
  IF styled_html_references = << >> THEN << >>
  ELSE HtmlHead \o HtmlBodyOpen
         \o Join([k \in 1..Len(styled_html_references) |->
                    ListItem(styled_html_references[k])], ItemSeparator)
         \o HtmlBodyClose

----------------------------------------------------------------------------
(* process_text.                                                           *)

IsNonBlank(line) == Strip(line) # << >>

\* what the loop body appends for a line, given whether its numbering was
\* stripped and its normalized text
Entry(stripped, normalized_line) ==
  [stripped |-> stripped,
   normalized_line |-> normalized_line,
   plain |-> Escape(normalized_line),
   styled |-> _apply_mixed_font_styles(normalized_line)]

\* the loop body from the result of the stripper on
Cleaned(result) == Entry(result[2], _normalize_characters(result[1]))

\* the loop body with the stripper's flag dropped
ProcessLine_unflagged(line) ==
  Entry(FALSE, _normalize_characters(_strip_numbering(Strip(line))[1]))

\* the body of the loop over the lines, for one non-blank line
ProcessLine(line) == Cleaned(_strip_numbering(Strip(line)))

\* the loop over the lines that are not blank: one record per line
RECURSIVE ProcessEach(_)
ProcessEach(lines) ==
  IF lines = << >> THEN << >>
  ELSE << ProcessLine(Head(lines)) >> \o ProcessEach(Tail(lines))

\* the loop over raw_text.strip().split('\n')
ProcessLines(raw_text) ==
  ProcessEach(SelectSeq(Split(Strip(raw_text), "\n"), IsNonBlank))

\* the field of every record of entries, in their order
RECURSIVE Field(_, _)
Field(entries, name) ==
  IF entries = << >> THEN << >>
  ELSE << Head(entries)[name] >> \o Field(Tail(entries), name)

\* the two lists and the flag, from the records of the loop
Outputs(entries) ==
  << _generate_html_list(Field(entries, "styled")),
     _generate_plain_text_list(Field(entries, "plain")),
     \E n \in 1..Len(entries) : entries[n].stripped >>

\* returns (html_output, plain_text_output, was_stripped); format_name is
\* a reserved parameter that the method does not read
process_text(raw_text, format_name) ==
  IF Strip(raw_text) = << >> THEN << << >>, << >>, FALSE >>
  ELSE Outputs(ProcessLines(raw_text))

----------------------------------------------------------------------------
(* Entry extractor.                                                        *)

\* str.lower() of an ASCII letter, for re.IGNORECASE
UpperLetters ==
  <<"A", "B", "C", "D", "E", "F", "G", "H", "I", "J", "K", "L", "M",
    "N", "O", "P", "Q", "R", "S", "T", "U", "V", "W", "X", "Y", "Z">>

LowerLetters ==
  <<"a", "b", "c", "d", "e", "f", "g", "h", "i", "j", "k", "l", "m",
    "n", "o", "p", "q", "r", "s", "t", "u", "v", "w", "x", "y", "z">>

Lower(c) ==
  IF c \in Range(UpperLetters)
  THEN LowerLetters[CHOOSE k \in 1..Len(UpperLetters) : UpperLetters[k] = c]
  ELSE c

\* s has the literal lit at index i, ignoring case
HasAt(s, i, lit) ==
  /\ i + Len(lit) - 1 <= Len(s)
  /\ \A k \in 1..Len(lit) : Lower(s[i + k - 1]) = lit[k]

\* index of the first occurrence of lit at or after i, ignoring case
\* (Len(s) + 1 when there is none)
FindLit(s, i, lit) == FirstIndex(s, i, LAMBDA j : HasAt(s, j, lit))

\* re.search(open [^>]* > (.*?) close) from index i, DOTALL | IGNORECASE:
\* the leftmost match; found is FALSE when there is none, from..to is
\* group(1) and end is the index after the match
SearchElement(s, i, open, close) ==
  LET a == FindLit(s, i, open)
      b == FindChar(s, a + Len(open), ">")
      c == FindLit(s, b + 1, close)
  IN  IF a > Len(s) \/ b > Len(s) \/ c > Len(s)
      THEN [found |-> FALSE, from |-> 0, to |-> 0, end |-> 0]
      ELSE [found |-> TRUE, from |-> b + 1, to |-> c - 1, end |-> c + Len(close)]

_extract_body_content(html_content) ==
  LET body_match == SearchElement(html_content, 1, <<"<", "b", "o", "d", "y">>,
                                  <<"<", "/", "b", "o", "d", "y", ">">>)
  IN  IF body_match.found
      THEN Strip(Slice(html_content, body_match.from, body_match.to))
      ELSE html_content

\* index of the '>' that ends a match of <[^<]+?> starting at the '<' at
\* index p, or 0 when there is no match at p
\* ([^<]+? takes one character or more, none of them '<', and stops at
\* the first '>' behind them)
TagEnd(s, p) ==
  LET q == FirstIndex(s, p + 1, LAMBDA j : s[j] = "<" \/ (s[j] = ">" /\ j >= p + 2))
  IN  IF q > Len(s) \/ s[q] = "<" THEN 0 ELSE q

\* re.sub('<[^<]+?>', '', s), from index i: the text up to the next '<'
\* is kept, and the '<' too unless a match starts at it
RECURSIVE RemoveTags(_, _)
RemoveTags(s, i) ==
  LET p == FindChar(s, i, "<")
  IN  IF p > Len(s) THEN Slice(s, i, Len(s))
      ELSE IF TagEnd(s, p) # 0
           THEN Slice(s, i, p - 1) \o RemoveTags(s, TagEnd(s, p) + 1)
           ELSE Slice(s, i, p) \o RemoveTags(s, p + 1)

\* the loop over li_pattern.finditer(body_content), from index i
RECURSIVE ExtractItems(_, _)
ExtractItems(body_content, i) ==
  LET match == SearchElement(body_content, i, <<"<", "l", "i">>,
                             <<"<", "/", "l", "i", ">">>)
      li_content == Slice(body_content, match.from, match.to)
      clean_text == Strip(CollapseWhitespace(Unescape(RemoveTags(li_content, 1))))
  IN  IF ~match.found THEN << >>
      ELSE (IF clean_text # << >> THEN << clean_text >> ELSE << >>)
             \o ExtractItems(body_content, match.end)

_extract_references_from_html(html_content) ==
  ExtractItems(_extract_body_content(html_content), 1)

----------------------------------------------------------------------------
(* Split preview: ReferenceBlockFormatter and get_formatted_split_preview. *)

\* the three colour sets of the blocks, used in rotation
BLOCK_STYLES ==
  << [bg_color |-> "#f0f8ff", border_color |-> "#b0d0e0", header_bg |-> "#d0e8f0"],
     [bg_color |-> "#fff8f0", border_color |-> "#e0c0b0", header_bg |-> "#f0e0d0"],
     [bg_color |-> "#f8f8f0", border_color |-> "#d0d0b0", header_bg |-> "#e8e8d0"] >>

\* The style attributes of the elements of a block.  Their text holds no
\* '<', '>' or '&', so each is kept as one element of the markup.
HeaderStyle(style) ==
  CASE style = BLOCK_STYLES[1] -> "style=\"background: #d0e8f0; ... #b0d0e0; ...\""
    [] style = BLOCK_STYLES[2] -> "style=\"background: #f0e0d0; ... #e0c0b0; ...\""
    [] style = BLOCK_STYLES[3] -> "style=\"background: #e8e8d0; ... #d0d0b0; ...\""

LineStyle(style) ==
  CASE style = BLOCK_STYLES[1] -> "style=\"padding: 8px 15px; border-left: 2px solid #b0d0e0; ...\""
    [] style = BLOCK_STYLES[2] -> "style=\"padding: 8px 15px; border-left: 2px solid #e0c0b0; ...\""
    [] style = BLOCK_STYLES[3] -> "style=\"padding: 8px 15px; border-left: 2px solid #d0d0b0; ...\""

ContentStyle(style) ==
  CASE style = BLOCK_STYLES[1] -> "style=\"background-color: #f0f8ff; border: 2px solid #b0d0e0; ...\""
    [] style = BLOCK_STYLES[2] -> "style=\"background-color: #fff8f0; border: 2px solid #e0c0b0; ...\""
    [] style = BLOCK_STYLES[3] -> "style=\"background-color: #f8f8f0; border: 2px solid #d0d0b0; ...\""

\* '<div style="...">'
DivOpen(style_attribute) == <<"<", "d", "i", "v", " ", style_attribute, ">">>

DivClose == <<"<", "/", "d", "i", "v", ">">>

\* the line divs of a block: one per line that is not blank, the line
\* written as it is
RECURSIVE BlockContent(_, _)
BlockContent(block_lines, style) ==
  IF block_lines = << >> THEN << >>
  ELSE (IF Strip(Head(block_lines)) # << >>
        THEN DivOpen(LineStyle(style)) \o Head(block_lines) \o DivClose
        ELSE << >>)
         \o BlockContent(Tail(block_lines), style)

\* render_block(block_lines, block_num): the header with the number of the
\* block, then the lines
render_block(block_lines, block_num) ==
  IF block_lines = << >> THEN << >>
  ELSE LET style == BLOCK_STYLES[(block_num % Len(BLOCK_STYLES)) + 1]
       IN  DivOpen("style=\"margin: 25px 0; border-radius: 8px; box-shadow: ...\"")
             \o DivOpen(HeaderStyle(style))
             \o <<"U+1F4D6", " ", "U+6587", "U+732E", " ">>
             \o ToDecimal(block_num + 1) \o <<" ">> \o DivClose
             \o DivOpen(ContentStyle(style))
             \o BlockContent(block_lines, style)
             \o DivClose \o DivClose

\* the loop of format_unencoded over lines_with_markers from index i, and
\* what follows it: the last block, the count of blocks and the closing tag
RECURSIVE FormatBlocks(_, _, _, _)
FormatBlocks(lines_with_markers, i, current_block_lines, block_index) ==
  IF i > Len(lines_with_markers)
  THEN render_block(current_block_lines, block_index)
         \o DivOpen("style=\"text-align: center; color: #666; ...\"")
         \o <<"U+2705", " ", "U+5171", "U+68C0", "U+6D4B", "U+5230", " ">>
         \o ToDecimal(block_index + 1)
         \o <<" ", "U+7BC7", "U+683C", "U+5F0F", "U+5316", "U+6587", "U+732E">>
         \o DivClose \o DivClose
  ELSE LET line == lines_with_markers[i][1]
           is_new_block_start == lines_with_markers[i][2]
       IN  IF is_new_block_start /\ current_block_lines # << >>
           THEN render_block(current_block_lines, block_index)
                  \o FormatBlocks(lines_with_markers, i + 1, << line >>, block_index + 1)
           ELSE FormatBlocks(lines_with_markers, i + 1,
                             Append(current_block_lines, line), block_index)

\* ReferenceBlockFormatter(lines_with_markers=...).format(tokens, None):
\* the token source is not read
format_unencoded(lines_with_markers) ==
  DivOpen("style=\"font-family: Arial, sans-serif; font-size: 11pt; ...\"")
    \o FormatBlocks(lines_with_markers, 1, << >>, 0)

\* the preview of text that is not blank: the plain output of process_text
\* is split into lines, the boundaries are detected, the blocks are
\* rendered and the references of the markup are resolved
SplitPreviewOf(raw_text, format_name) ==
  Unescape(format_unencoded(_detect_boundary_lines(
             Split(process_text(raw_text, format_name)[2], "\n"))))

\* the preview without the test for blank text
get_formatted_split_preview_unguarded(raw_text, format_name) ==
  SplitPreviewOf(raw_text, format_name)

get_formatted_split_preview(raw_text, format_name) ==
  IF Strip(raw_text) = << >> THEN << >>
  ELSE SplitPreviewOf(raw_text, format_name)

----------------------------------------------------------------------------
(* Word export: export_to_word_file_with_custom_font.                      *)

\* What the operating system and the document library answer during one
\* export: whether the libraries were imported, whether file_path exists,
\* the outcome of opening it for appending, the outcome of building the
\* document, and the outcomes of the attempts to save it.  An outcome is
\* "ok", "PermissionError", or "OSError" for an OSError that is not a
\* PermissionError (a read-only file system, a path that is a directory or
\* whose directory is missing); building fails with "Exception".
OpenOutcomes == {"ok", "PermissionError", "OSError"}

max_retries == 3

\* the save without the retry: the first PermissionError is raised
SaveLoop_no_retry(save, attempt) ==
  [result |-> IF save[attempt + 1] = "ok" THEN "True"
              ELSE IF save[attempt + 1] = "PermissionError" THEN "PermissionError"
              ELSE "False",
   attempts |-> attempt + 1]

\* the loop over range(max_retries) around doc.save(file_path), from
\* attempt on: a PermissionError is retried until the last attempt and then
\* raised, any other exception leaves the loop at once
RECURSIVE SaveLoop(_, _)
SaveLoop(save, attempt) ==
  IF save[attempt + 1] = "ok"
  THEN [result |-> "True", attempts |-> attempt + 1]
  ELSE IF save[attempt + 1] = "PermissionError"
       THEN IF attempt < max_retries - 1
            THEN SaveLoop(save, attempt + 1)
            ELSE [result |-> "PermissionError", attempts |-> attempt + 1]
       ELSE [result |-> "False", attempts |-> attempt + 1]

\* result is "True" or "False" for the value returned and "PermissionError"
\* for the exception raised; attempts counts the calls of doc.save.  The
\* markup decides what the document holds, not whether it is saved.
export_to_word_file_with_custom_font(html_content, env) ==
  IF ~env.docx_available THEN [result |-> "False", attempts |-> 0]
  ELSE IF env.exists /\ env.probe # "ok"
       THEN [result |-> "PermissionError", attempts |-> 0]
  ELSE IF env.build # "ok" THEN [result |-> "False", attempts |-> 0]
  ELSE SaveLoop(env.save, 0)

----------------------------------------------------------------------------
(* Inputs.                                                                 *)

\* all strings over alphabet of length at most n
Strings(alphabet, n) == UNION {[1..k -> alphabet] : k \in 0..n}

MaxNormLen == 4

\* a letter, a space, an ASCII full stop, two ideographs (the second is a
\* key of CHAR_MAPPING), a full-width comma, the middle dot (mapped only by
\* _normalize_english_punctuation) and the ideographic space
NormAlphabet ==
  {"a", " ", ".", "U+5F20", "U+56DB", "U+FF0C", "U+00B7", "U+3000"}

MaxStripLen == 4

\* whitespace, digits, the marker punctuation and entry text
StripAlphabet == {" ", "1", "2", ".", "[", "]", "(", ")", "a"}

MaxRunLen == 4

\* a letter, a space, ASCII punctuation, an ideograph, a full-width comma
\* and two characters html.escape rewrites
RunAlphabet == {"a", " ", ".", "U+5F20", "U+FF0C", "&", "<"}

MaxLines == 3

\* lines handed to the boundary detector: blank lines, plain text, text
\* behind each of the three markers, and near misses of the markers
BoundaryLineSamples ==
  { << >>, <<" ">>, <<"a">>, <<" ", "a">>,
    <<"1", ".", " ", "a">>, <<" ", "1", "2", ".">>,
    <<"[", "1", "]", "a">>, <<"(", "2", ")">>,
    <<"1", "a">>, <<"[", "]">>, <<"(", "1">>, <<"a", "1", ".">> }

\* all lists of at most n elements of S
Lists(S, n) == UNION {[1..k -> S] : k \in 0..n}

MaxRawLines == 2

\* the values of format_name: the plain format the application passes and
\* the two other presentation styles
NumberingFormats == {"plain", "bracket", "parenthesis"}

\* lines of pasted text: empty, blank, unnumbered, numbered in each of the three
\* styles, a marker with nothing behind it, two markers in a row, text that
\* html.escape rewrites, text that spells a character reference, whitespace
\* to trim and collapse, and Chinese text with full-width marks
RawLineSamples ==
  { << >>,
    <<"a">>,
    <<"1", ".">>,
    <<"2", ".", " ", "a">>,
    <<"[", "1", "2", "]", "b">>,
    <<"(", "3", ")", " ", "U+5F20", "U+FF0C", "U+4E09">>,
    <<"1", ".", " ", "2", ".", "a">>,
    <<"a", " ", "&", " ", "<", "b", ">">>,
    <<"&", "l", "t", ";">>,
    <<" ", "a", " ", " ", "b", "\t">>,
    <<" ", "\t">>,
    <<"U+3010", "1", "U+3011", "U+5F20", ".">> }

\* the text of the input box: the lines joined by newlines
RawTexts == {Join(lines, << "\n" >>) : lines \in Lists(RawLineSamples, MaxRawLines)}

\* markup handed to the extractor that process_text did not write: text
\* without tags, elements other than list items, a body without items, an
\* item whose text is blank, and items in both letter cases
MarkupSamples ==
  { << >>,
    <<"a", "b">>,
    <<"<", "p", ">", "a", "<", "/", "p", ">">>,
    <<"<", "b", "o", "d", "y", ">", " ", "a", " ", "<", "/", "b", "o", "d", "y", ">">>,
    <<"<", "u", "l", ">", "<", "/", "u", "l", ">">>,
    <<"<", "l", "i", ">", " ", "<", "/", "l", "i", ">">>,
    <<"<", "l", "i", ">", "a", "<", "/", "l", "i", ">">>,
    <<"<", "L", "I", ">", "a", "<", "/", "L", "I", ">", "<", "l", "i", ">", "b", "<", "/", "l", "i", ">">> }

MaxEntries == 2

\* normalized entry texts handed to the two list generators
EntrySamples == { <<"a">>, <<"U+5F20", "&">> }

\* the environments of an export
ExportEnvs ==
  [docx_available : BOOLEAN, exists : BOOLEAN, probe : OpenOutcomes,
   build : {"ok", "Exception"}, save : [1..max_retries -> OpenOutcomes]]

MaxMarkerLines == 3

\* lines handed to the block formatter with a flag each: an empty line, a
\* blank line and two entries
MarkerLineSamples == { << >>, <<" ">>, <<"a">>, <<"1", ".", " ", "b">> }

----------------------------------------------------------------------------
(* The calls.                                                              *)

Init ==
  /\ op = "idle"
  /\ arg = << >>
  /\ ret = << >>
  /\ input_text = [format |-> "plain", content |-> << >>]
  /\ output_text = [format |-> "plain", content |-> << >>]
  /\ html_output_for_clipboard = << >>
  /\ clipboard = << >>
  /\ status_label = "ready"
  /\ word_file_path = << >>
  /\ completed = << >>

\* the caller takes the result; the processor is ready for the next call
Return ==
  /\ op # "idle"
  /\ op' = "idle"
  /\ arg' = << >>
  /\ ret' = << >>
  /\ UNCHANGED ui_vars

NormalizeCharacters ==
  /\ op = "idle"
  /\ \E line \in Strings(NormAlphabet, MaxNormLen) :
       /\ op' = "_normalize_characters"
       /\ arg' = line
       /\ ret' = _normalize_characters(line)
  /\ UNCHANGED ui_vars

StripNumbering ==
  /\ op = "idle"
  /\ \E line \in Strings(StripAlphabet, MaxStripLen) :
       /\ op' = "_strip_numbering"
       /\ arg' = line
       /\ ret' = _strip_numbering(line)
  /\ UNCHANGED ui_vars

ApplyMixedFontStyles ==
  /\ op = "idle"
  /\ \E line \in Strings(RunAlphabet, MaxRunLen) :
       /\ op' = "_apply_mixed_font_styles"
       /\ arg' = line
       /\ ret' = _apply_mixed_font_styles(line)
  /\ UNCHANGED ui_vars

DetectBoundaryLines ==
  /\ op = "idle"
  /\ \E lines \in Lists(BoundaryLineSamples, MaxLines) :
       /\ op' = "_detect_boundary_lines"
       /\ arg' = lines
       /\ ret' = _detect_boundary_lines(lines)
  /\ UNCHANGED ui_vars

ProcessText ==
  /\ op = "idle"
  /\ \E raw_text \in RawTexts, format_name \in NumberingFormats :
       /\ op' = "process_text"
       /\ arg' = << raw_text, format_name >>
       /\ ret' = process_text(raw_text, format_name)
  /\ UNCHANGED ui_vars

\* the export path: the markup process_text returned is read back
ExtractReferencesFromHtml ==
  /\ op = "process_text"
  /\ op' = "_extract_references_from_html"
  /\ arg' = ret[1]
  /\ ret' = _extract_references_from_html(ret[1])
  /\ UNCHANGED ui_vars

\* the extractor called on markup of any origin
ExtractReferencesFromMarkup ==
  /\ op = "idle"
  /\ \E html_content \in MarkupSamples :
       /\ op' = "_extract_references_from_html"
       /\ arg' = html_content
       /\ ret' = _extract_references_from_html(html_content)
  /\ UNCHANGED ui_vars

GetFormattedSplitPreview ==
  /\ op = "idle"
  /\ \E raw_text \in RawTexts, format_name \in NumberingFormats :
       /\ op' = "get_formatted_split_preview"
       /\ arg' = << raw_text, format_name >>
       /\ ret' = get_formatted_split_preview(raw_text, format_name)
  /\ UNCHANGED ui_vars

\* the plain-text list of escaped entries, as process_text builds them
GeneratePlainTextList ==
  /\ op = "idle"
  /\ \E entries \in Lists(EntrySamples, MaxEntries) :
       LET references == [k \in 1..Len(entries) |-> Escape(entries[k])]
       IN  /\ op' = "_generate_plain_text_list"
           /\ arg' = references
           /\ ret' = _generate_plain_text_list(references)
  /\ UNCHANGED ui_vars

\* the markup list of styled entries, as process_text builds them
GenerateHtmlList ==
  /\ op = "idle"
  /\ \E entries \in Lists(EntrySamples, MaxEntries) :
       LET styled_html_references ==
             [k \in 1..Len(entries) |-> _apply_mixed_font_styles(entries[k])]
       IN  /\ op' = "_generate_html_list"
           /\ arg' = styled_html_references
           /\ ret' = _generate_html_list(styled_html_references)
  /\ UNCHANGED ui_vars

\* an export of markup of any origin, in any environment
ExportToWordFileWithCustomFont ==
  /\ op = "idle"
  /\ \E html_content \in MarkupSamples, env \in ExportEnvs :
       /\ op' = "export_to_word_file_with_custom_font"
       /\ arg' = << html_content, env >>
       /\ ret' = export_to_word_file_with_custom_font(html_content, env)
  /\ UNCHANGED ui_vars

\* the block formatter on a marker sequence of any origin
FormatUnencoded ==
  /\ op = "idle"
  /\ \E lines_with_markers \in Lists(MarkerLineSamples \X BOOLEAN, MaxMarkerLines) :
       /\ op' = "format_unencoded"
       /\ arg' = lines_with_markers
       /\ ret' = format_unencoded(lines_with_markers)
  /\ UNCHANGED ui_vars

Next ==
  \/ FormatUnencoded
  \/ ExportToWordFileWithCustomFont
  \/ GenerateHtmlList
  \/ GeneratePlainTextList
  \/ GetFormattedSplitPreview
  \/ ExtractReferencesFromMarkup
  \/ ProcessText
  \/ ExtractReferencesFromHtml
  \/ DetectBoundaryLines
  \/ ApplyMixedFontStyles
  \/ StripNumbering
  \/ NormalizeCharacters
  \/ Return

Spec == Init /\ [][Next]_vars

----------------------------------------------------------------------------
(* The window: ReferenceFormatterApp (src/main.py).  Its handlers run on   *)
(* the event loop of the user interface, one at a time and each to its     *)
(* end; a handler calls the processor and gets the result before it goes   *)
(* on.  The calls of the toolkit do not raise; a call of the processor    *)
(* may, and then the handler reports the error and writes nothing else.    *)

fixed_format_name == "plain"

\* QTextEdit.toPlainText(): the text of the document with a no-break space
\* read as a space and a line or paragraph separator read as a newline; of
\* a document set from markup, the text outside the tags
toPlainText(document) ==
  LET text == IF document.format = "html"
              THEN Unescape(RemoveTags(document.content, 1))
              ELSE document.content
  IN  ReplaceAll(text,
                 << <<"U+00A0", " ">>, <<"U+2028", "\n">>, <<"U+2029", "\n">> >>,
                 1)

\* QTextEdit.setPlainText(text) and QTextEdit.setHtml(text)
setPlainText(text) == [format |-> "plain", content |-> text]

setHtml(text) == [format |-> "html", content |-> text]

\* what the user can put into the input box
InputTexts ==
  { << >>,
    <<" ", "\n">>,
    <<"a">>,
    <<"1", ".", "a", "\n", "b">>,
    <<"a", "U+00A0", "U+5F20">>,
    <<"&", "\n", "2", ".", " ", "<">> }

\* what the file dialog returns: nothing when it is cancelled
FilePaths ==
  { << >>,
    <<"r">>,
    <<"r", ".", "d", "o", "c", "x">>,
    <<"r", ".", "D", "O", "C", "X">> }

\* file_path.lower().endswith('.docx')
EndsWithDocx(file_path) ==
  /\ Len(file_path) >= 5
  /\ \A k \in 1..5 :
       Lower(file_path[Len(file_path) - 5 + k]) = <<".", "d", "o", "c", "x">>[k]

\* the number of successful steps 1 and 2 a session of the model runs to
MaxSteps == 3

\* the user edits the input box
EditInput ==
  /\ \E text \in InputTexts :
       /\ text # input_text.content
       /\ input_text' = setPlainText(text)
  /\ UNCHANGED << output_text, html_output_for_clipboard, clipboard,
                  status_label, word_file_path, completed >>
  /\ UNCHANGED processor_vars

\* split_preview with the stored markup left as it is
SplitPreview_keeps_html ==
  /\ LET raw_text == toPlainText(input_text)
     IN  IF Strip(raw_text) = << >>
         THEN /\ status_label' = "input empty"
              /\ UNCHANGED << output_text, html_output_for_clipboard, completed >>
         ELSE \E raised \in BOOLEAN :
                IF raised
                THEN /\ status_label' = "step 1 error"
                     /\ UNCHANGED << output_text, html_output_for_clipboard,
                                     completed >>
                ELSE /\ Len(completed) < MaxSteps
                     /\ output_text' = setHtml(
                          get_formatted_split_preview(raw_text, fixed_format_name))
                     /\ UNCHANGED html_output_for_clipboard
                     /\ status_label' = "step 1 done"
                     /\ completed' = Append(completed, "split_preview")
  /\ UNCHANGED << input_text, clipboard, word_file_path >>
  /\ UNCHANGED processor_vars

\* split_preview: step 1.  The call of the processor either returns or
\* raises; an exception leaves the handler through its except branch
\* before anything is written.
SplitPreview ==
  /\ LET raw_text == toPlainText(input_text)
     IN  IF Strip(raw_text) = << >>
         THEN /\ status_label' = "input empty"
              /\ UNCHANGED << output_text, html_output_for_clipboard, completed >>
         ELSE \E raised \in BOOLEAN :
                IF raised
                THEN /\ status_label' = "step 1 error"
                     /\ UNCHANGED << output_text, html_output_for_clipboard,
                                     completed >>
                ELSE /\ Len(completed) < MaxSteps
                     /\ output_text' = setHtml(
                          get_formatted_split_preview(raw_text, fixed_format_name))
                     /\ html_output_for_clipboard' = << >>
                     /\ status_label' = "step 1 done"
                     /\ completed' = Append(completed, "split_preview")
  /\ UNCHANGED << input_text, clipboard, word_file_path >>
  /\ UNCHANGED processor_vars

\* what process_references writes from the result of process_text
StoreResult(result) ==
  /\ html_output_for_clipboard' = result[1]
  /\ output_text' = setPlainText(result[2])
  /\ status_label' = IF result[3] THEN "step 2 done, numbering stripped"
                                  ELSE "step 2 done, no numbering found"
  /\ completed' = Append(completed, "process_references")

\* process_references: step 2.  The call of the processor either returns
\* or raises; an exception leaves the handler through its except branch
\* before anything is written.
ProcessReferences ==
  /\ LET raw_text == toPlainText(input_text)
     IN  IF Strip(raw_text) = << >>
         THEN /\ status_label' = "input empty"
              /\ UNCHANGED << output_text, html_output_for_clipboard, completed >>
         ELSE \E raised \in BOOLEAN :
                IF raised
                THEN /\ status_label' = "step 2 error"
                     /\ UNCHANGED << output_text, html_output_for_clipboard,
                                     completed >>
                ELSE /\ Len(completed) < MaxSteps
                     /\ StoreResult(process_text(raw_text, fixed_format_name))
  /\ UNCHANGED << input_text, clipboard, word_file_path >>
  /\ UNCHANGED processor_vars

\* copy_to_clipboard without its test of the stored markup
CopyToClipboard_ungated ==
  /\ clipboard' = << toPlainText(output_text), html_output_for_clipboard >>
  /\ status_label' = "step 3 done"
  /\ UNCHANGED << input_text, output_text, html_output_for_clipboard,
                  word_file_path, completed >>
  /\ UNCHANGED processor_vars

\* copy_to_clipboard: step 3
CopyToClipboard ==
  /\ IF html_output_for_clipboard = << >>
     THEN /\ status_label' = "order hint"
          /\ UNCHANGED clipboard
     ELSE /\ clipboard' = << toPlainText(output_text),
                            html_output_for_clipboard >>
          /\ status_label' = "step 3 done"
  /\ UNCHANGED << input_text, output_text, html_output_for_clipboard,
                  word_file_path, completed >>
  /\ UNCHANGED processor_vars

\* export_to_word_file: step 4, with the answer of the file dialog and the
\* outcome of the export in some environment
ExportToWordFile ==
  /\ IF html_output_for_clipboard = << >>
     THEN /\ status_label' = "format first"
          /\ UNCHANGED word_file_path
     ELSE \E chosen \in FilePaths,
             exported \in {export_to_word_file_with_custom_font(
                             html_output_for_clipboard, env) : env \in ExportEnvs} :
            IF chosen = << >>
            THEN UNCHANGED << status_label, word_file_path >>
            ELSE LET file_path == IF EndsWithDocx(chosen) THEN chosen
                                  ELSE chosen \o <<".", "d", "o", "c", "x">>
                 IN  IF exported.result = "True"
                     THEN /\ word_file_path' = file_path
                          /\ status_label' = "file written"
                     ELSE /\ UNCHANGED word_file_path
                          /\ status_label' =
                               IF exported.result = "PermissionError"
                               THEN "permission denied" ELSE "export failed"
  /\ UNCHANGED << input_text, output_text, html_output_for_clipboard, clipboard,
                  completed >>
  /\ UNCHANGED processor_vars

UiNext ==
  \/ EditInput
  \/ SplitPreview
  \/ ProcessReferences
  \/ CopyToClipboard
  \/ ExportToWordFile

UiSpec == Init /\ [][UiNext]_vars

----------------------------------------------------------------------------
(* C1: normalizing an already normalized line changes nothing:             *)
(* _normalize_characters(_normalize_characters(s)) =                       *)
(* _normalize_characters(s) for every line s.                              *)
C1_NormalizeIdempotent ==
  op = "_normalize_characters" => _normalize_characters(ret) = ret

\* a line whose normalization rewrote a full-width mark, collapsed
\* whitespace and kept an ideograph
C1_Witness ==
  /\ op = "_normalize_characters"
  /\ arg = <<"U+5F20", "U+00B7", "U+3000", " ">>
  /\ ret = <<"U+5F20", ".">>

(* C2: stripping is safe on stripped text: _strip_numbering applied to the  *)
(* cleaned text it returned reports was_stripped = FALSE and returns that  *)
(* text unchanged.                                                         *)
C2_StripSafeOnStripped ==
  op = "_strip_numbering" => _strip_numbering(ret[1]) = << ret[1], FALSE, 0 >>

----------------------------------------------------------------------------
(* Reading the runs back from the markup of a line: each                   *)
(* <span style=...>content</span> gives its font and its unescaped text.   *)

FontOfStyle(style) ==
  IF style = SpanStyle(CHINESE_FONT) THEN CHINESE_FONT ELSE ENGLISH_FONT

RECURSIVE SpansOf(_, _)
SpansOf(markup, i) ==
  IF i > Len(markup) THEN << >>
  ELSE LET open  == i + 8                           \* first character of the content
           close == FindChar(markup, open, "<")     \* the '<' of </span>
       IN  << [font |-> FontOfStyle(markup[i + 6]),
               text |-> Unescape(Slice(markup, open, close - 1))] >>
             \o SpansOf(markup, close + 7)

RunTexts(markup) ==
  LET spans == SpansOf(markup, 1) IN [k \in 1..Len(spans) |-> spans[k].text]

AllIn(text, cls) == \A k \in 1..Len(text) : CharIn(text[k], cls)

\* no CJK ideograph, no ASCII letter or digit, no whitespace
IsOtherChar(c) == ~CharIn(c, "cjk") /\ ~CharIn(c, "alnum_space")

(* C6: the run split is lossless: the unescaped texts of the runs of       *)
(* _apply_mixed_font_styles(s), concatenated in order, are s, and no run   *)
(* is empty.                                                               *)
C6_LosslessRunSplit ==
  op = "_apply_mixed_font_styles" =>
    /\ Concat(RunTexts(ret)) = arg
    /\ \A k \in 1..Len(RunTexts(ret)) : RunTexts(ret)[k] # << >>

\* a line of three runs, one of them rewritten by html.escape
C6_Witness ==
  /\ op = "_apply_mixed_font_styles"
  /\ arg = <<"a", " ", "&", "U+5F20">>
  /\ RunTexts(ret) = << <<"a", " ">>, <<"&">>, <<"U+5F20">> >>

(* C7: every run is of one class: all CJK ideographs, or all ASCII         *)
(* letters, digits and whitespace, or all other characters (so a run of    *)
(* punctuation holds no ASCII letter or digit).                            *)
C7_RunsAreOfOneClass ==
  op = "_apply_mixed_font_styles" =>
    \A k \in 1..Len(RunTexts(ret)) :
      LET text == RunTexts(ret)[k]
      IN  \/ AllIn(text, "cjk")
          \/ AllIn(text, "alnum_space")
          \/ \A c \in Range(text) : IsOtherChar(c)

----------------------------------------------------------------------------
(* The boundary rule, stated on the characters of a line.                  *)

IsBlankLine(l) == \A k \in 1..Len(l) : IsSpace(l[k])

\* after leading whitespace the line begins with [digits], digits. or (digits)
BeginsWithMarker(l) ==
  \E p \in 1..Len(l) : \E q \in p..Len(l) :
    /\ \A k \in 1..(p - 1) : IsSpace(l[k])
    /\ \/ /\ l[p] = "[" /\ l[q] = "]" /\ q > p + 1
          /\ \A k \in (p + 1)..(q - 1) : IsDigit(l[k])
       \/ /\ l[p] = "(" /\ l[q] = ")" /\ q > p + 1
          /\ \A k \in (p + 1)..(q - 1) : IsDigit(l[k])
       \/ /\ l[q] = "." /\ q > p
          /\ \A k \in p..(q - 1) : IsDigit(l[k])

(* C8: _detect_boundary_lines returns one pair per line, the lines         *)
(* unchanged and in order, and a line after the first is a start exactly   *)
(* if it begins with a numbering marker, or it is not blank and the line   *)
(* before it is blank.                                                     *)
C8_BoundaryRule ==
  op = "_detect_boundary_lines" =>
    /\ Len(ret) = Len(arg)
    /\ \A i \in 1..Len(arg) : ret[i][1] = arg[i]
    /\ \A i \in 2..Len(arg) :
         ret[i][2] <=> \/ BeginsWithMarker(arg[i])
                       \/ ~IsBlankLine(arg[i]) /\ IsBlankLine(arg[i - 1])

\* a start by the marker behind a blank, a blank line that is no start,
\* and a start by the blank-predecessor rule alone
C8_Witness ==
  /\ op = "_detect_boundary_lines"
  /\ arg = << <<"a">>, <<"(", "2", ")">>, <<" ">> >>
  /\ ret[2][2] /\ ~ret[3][2]

(* C9: _detect_boundary_lines([]) is [], and the first line of a           *)
(* non-empty list is a start whatever it holds.                            *)
C9_BoundarySeed ==
  op = "_detect_boundary_lines" =>
    /\ arg = << >> => ret = << >>
    /\ arg # << >> => ret[1] = << arg[1], TRUE >>
    /\ Len(arg) = 1 => ret = << << arg[1], TRUE >> >>

\* a single empty line is a start
C9_Witness ==
  /\ op = "_detect_boundary_lines"
  /\ arg = << << >> >>
  /\ ret = << << << >>, TRUE >> >>

----------------------------------------------------------------------------
(* The output of process_text, read back.                                  *)

\* the lines of a plain-text listing (none for the empty listing)
NumberedLines(plain_text_output) ==
  IF plain_text_output = << >> THEN << >> ELSE Split(plain_text_output, "\n")

\* the normalized text of the entries process_text makes of raw_text
EntryTexts(raw_text) ==
  LET entries == ProcessLines(raw_text)
  IN  [n \in 1..Len(entries) |-> entries[n].normalized_line]

\* the plain-text prefix of entry n in a numbering format
FormatPrefix(format, n) ==
  CASE format = "plain"       -> ToDecimal(n) \o <<".", " ">>
    [] format = "bracket"     -> <<"[">> \o ToDecimal(n) \o <<"]", " ">>
    [] format = "parenthesis" -> <<"(">> \o ToDecimal(n) \o <<")", " ">>

StartsWith(s, prefix) ==
  Len(s) >= Len(prefix) /\ SubSeq(s, 1, Len(prefix)) = prefix

(* C3: strip-then-render round trip: _strip_numbering applied to line i of *)
(* the plain-text rendering returns the unnumbered text of entry i and     *)
(* reports was_stripped = TRUE, whatever format was asked for.             *)
C3_StripRenderRoundTrip ==
  op = "process_text" =>
    \A i \in 1..Len(NumberedLines(ret[2])) :
      LET result == _strip_numbering(NumberedLines(ret[2])[i])
      IN  /\ i <= Len(EntryTexts(arg[1]))
          /\ result[1] = EntryTexts(arg[1])[i]
          /\ result[2] = TRUE

\* two entries, the second beginning with a marker of its own
C3_Witness ==
  /\ op = "process_text"
  /\ arg[2] = "parenthesis"
  /\ EntryTexts(arg[1]) = << <<"a">>, <<"2", ".", "a">> >>
  /\ NumberedLines(ret[2])[2] = <<"2", ".", " ", "2", ".", "a">>

(* C4 as stated: the prefix of every entry follows the format of the call: *)
(* 'n. ' for plain, '[n] ' for bracket, '(n) ' for parenthesis.            *)
C4_PrefixFollowsFormat ==
  op = "process_text" =>
    \A i \in 1..Len(NumberedLines(ret[2])) :
      StartsWith(NumberedLines(ret[2])[i], FormatPrefix(arg[2], i))

(* C4 amended: the prefix of every entry of process_text is 'n. ',         *)
(* uniformly for all entries, whatever format_name the call was given.     *)
C4_PrefixIsPlain ==
  op = "process_text" =>
    \A i \in 1..Len(NumberedLines(ret[2])) :
      StartsWith(NumberedLines(ret[2])[i], FormatPrefix("plain", i))

\* a call in the bracket format whose two entries carry '1. ' and '2. '
C4_Witness ==
  /\ op = "process_text"
  /\ arg[2] = "bracket"
  /\ ret[2] = <<"1", ".", " ", "a", "\n", "2", ".", " ", "b">>

(* C5: markup round trip: _extract_references_from_html applied to the     *)
(* markup of process_text gives the normalized entry texts in order, as    *)
(* many as the plain-text output has numbered lines.                       *)
C5_MarkupRoundTrip ==
  op = "process_text" =>
    /\ _extract_references_from_html(ret[1]) = EntryTexts(arg[1])
    /\ Len(_extract_references_from_html(ret[1])) = Len(NumberedLines(ret[2]))

(* C10: numbering contiguity: the plain-text rendering of N entries has N  *)
(* lines, and line i is the number i, '. ' and the text of entry i.        *)
C10_NumberingContiguous ==
  op = "process_text" =>
    /\ Len(NumberedLines(ret[2])) = Len(EntryTexts(arg[1]))
    /\ \A i \in 1..Len(EntryTexts(arg[1])) :
         NumberedLines(ret[2])[i]
           = ToDecimal(i) \o <<".", " ">> \o EntryTexts(arg[1])[i]

\* the numbers 2 and 12 were stripped; the entries are numbered 1 and 2
C10_Witness ==
  /\ op = "process_text"
  /\ arg[1] = <<"2", ".", " ", "a", "\n", "[", "1", "2", "]", "b">>
  /\ ret[2] = <<"1", ".", " ", "a", "\n", "2", ".", " ", "b">>
  /\ ret[3]

----------------------------------------------------------------------------
(* The result of _strip_numbering, stated on the characters of the line.   *)

\* index of the first character of l that is not whitespace
FirstNonSpace(l) ==
  IF \A k \in 1..Len(l) : IsSpace(l[k]) THEN Len(l) + 1
  ELSE CHOOSE p \in 1..Len(l) :
         ~IsSpace(l[p]) /\ \A k \in 1..(p - 1) : IsSpace(l[k])

\* l[p..q] is '[digits]', '(digits)' or 'digits.'
IsMarker(l, p, q) ==
  \/ /\ l[p] = "[" /\ l[q] = "]" /\ q > p + 1
     /\ \A k \in (p + 1)..(q - 1) : IsDigit(l[k])
  \/ /\ l[p] = "(" /\ l[q] = ")" /\ q > p + 1
     /\ \A k \in (p + 1)..(q - 1) : IsDigit(l[k])
  \/ /\ l[q] = "." /\ q > p
     /\ \A k \in p..(q - 1) : IsDigit(l[k])

\* the digits of the marker l[p..q]
MarkerDigits(l, p, q) ==
  IF l[q] = "." THEN Slice(l, p, q - 1) ELSE Slice(l, p + 1, q - 1)

(* C11: if the line begins, after leading whitespace, with '[digits]',     *)
(* '(digits)' or 'digits.', _strip_numbering returns the trimmed rest      *)
(* behind that one marker, TRUE and the value of the digits; otherwise it  *)
(* returns the trimmed line, FALSE and 0.                                  *)
C11_StripResult ==
  op = "_strip_numbering" =>
    LET p == FirstNonSpace(arg)
    IN  IF \E q \in p..Len(arg) : IsMarker(arg, p, q)
        THEN \E q \in p..Len(arg) :
               /\ IsMarker(arg, p, q)
               /\ ret = << Strip(Slice(arg, q + 1, Len(arg))), TRUE,
                           ToInt(MarkerDigits(arg, p, q)) >>
        ELSE ret = << Strip(arg), FALSE, 0 >>

\* two markers in a row: only the first is removed
C11_Witness ==
  /\ op = "_strip_numbering"
  /\ arg = <<"2", ".", "1", ".">>
  /\ ret = << <<"1", ".">>, TRUE, 2 >>

----------------------------------------------------------------------------
(* C12: a line numbered with full-width brackets loses its number: the     *)
(* entry process_text makes of such a line begins neither with '[1]' nor   *)
(* with the full-width marker, and was_stripped is TRUE.                   *)
C12_FullWidthBracketStripped ==
  (op = "process_text" /\ arg[1] = <<"U+3010", "1", "U+3011", "U+5F20", ".">>) =>
    /\ ret[3] = TRUE
    /\ ~StartsWith(EntryTexts(arg[1])[1], <<"[", "1", "]">>)
    /\ ~StartsWith(EntryTexts(arg[1])[1], <<"U+3010", "1", "U+3011">>)
    /\ ~StartsWith(NumberedLines(ret[2])[1], <<"1", ".", " ", "[", "1", "]">>)

\* the half-width punctuation marks _normalize_chinese_punctuation rewrites
HalfWidthPunctuation == {",", ".", ":", ";", "?", "!", "(", ")", "[", "]"}

(* C13: in Chinese text half-width punctuation becomes full-width: in the  *)
(* result of _normalize_characters no half-width mark of the set           *)
(* , . : ; ? ! ( ) [ ] stands directly behind a CJK ideograph.             *)
C13_ChinesePunctuationFullWidth ==
  op = "_normalize_characters" =>
    \A k \in 1..(Len(ret) - 1) :
      ret[k] \in CJK => ret[k + 1] \notin HalfWidthPunctuation

\* the markup holds no '<li', in any letter case
HasNoListItem(markup) == FindLit(markup, 1, <<"<", "l", "i">>) > Len(markup)

(* C14: when the markup holds no list item, the result of                  *)
(* _extract_references_from_html is not empty (the whole input as one      *)
(* entry, or one placeholder entry).                                       *)
C14_ExtractionMissNotEmpty ==
  (op = "_extract_references_from_html" /\ HasNoListItem(arg)) => ret # << >>

(* C15: empty input is neutral: both list generators return the empty      *)
(* string for the empty list, process_text returns ('', '', FALSE) for     *)
(* empty or blank text, and get_formatted_split_preview returns '' for it. *)
C15_EmptyInputNeutral ==
  /\ (op = "_generate_plain_text_list" /\ arg = << >>) => ret = << >>
  /\ (op = "_generate_html_list" /\ arg = << >>) => ret = << >>
  /\ (op = "process_text" /\ IsBlankLine(arg[1])) => ret = << << >>, << >>, FALSE >>
  /\ (op = "get_formatted_split_preview" /\ IsBlankLine(arg[1])) => ret = << >>

\* the preview of a text of two blank lines is empty
C15_Witness ==
  /\ op = "get_formatted_split_preview"
  /\ arg[1] = <<" ", "\t", "\n", " ", "\t">>
  /\ ret = << >>

----------------------------------------------------------------------------
\* the lines of the raw text that are not blank
NonBlankLines(raw_text) ==
  SelectSeq(Split(raw_text, "\n"), LAMBDA l : ~IsBlankLine(l))

(* C17: process_text reports was_stripped = TRUE exactly if a non-blank     *)
(* line of the raw text begins with a numbering marker '[digits]',         *)
(* '(digits)' or 'digits.'.                                                *)
C17_WasStrippedIffMarker ==
  op = "process_text" =>
    (ret[3] <=> \E k \in 1..Len(NonBlankLines(arg[1])) :
                  BeginsWithMarker(NonBlankLines(arg[1])[k]))

\* only the second line carries a marker
C17_Witness ==
  /\ op = "process_text"
  /\ arg[1] = <<"a", "\n", "2", ".", " ", "a">>
  /\ ret[3] = TRUE

\* the text has lines 'i. e_i' with i = 1..N and every e_i a non-empty
\* normalized entry
IsFormattedList(raw_text) ==
  LET lines == Split(raw_text, "\n")
  IN  /\ raw_text # << >>
      /\ \A i \in 1..Len(lines) :
           LET prefix == ToDecimal(i) \o <<".", " ">>
               e      == Slice(lines[i], Len(prefix) + 1, Len(lines[i]))
           IN  /\ StartsWith(lines[i], prefix)
               /\ e # << >>
               /\ _normalize_characters(e) = e

(* C18: formatted input is a fixed point: for lines 'i. e_i' process_text  *)
(* reports was_stripped = TRUE and returns the input as plain output, and  *)
(* process_text applied to its own plain output returns that output.       *)
C18_FormattedIsFixedPoint ==
  op = "process_text" =>
    /\ IsFormattedList(arg[1]) => (ret[3] = TRUE /\ ret[2] = arg[1])
    /\ process_text(ret[2], arg[2])[2] = ret[2]

\* a formatted list whose first entry begins with a marker of its own
C18_Witness ==
  /\ op = "process_text"
  /\ arg[1] = <<"1", ".", " ", "2", ".", "a", "\n", "2", ".", " ", "a">>
  /\ IsFormattedList(arg[1])
  /\ ret[2] = arg[1]

----------------------------------------------------------------------------
(* C20: an export that fails because the destination cannot be written     *)
(* raises PermissionError, and an export that fails for any other reason   *)
(* returns False.                                                          *)

\* the failure that ends the saving of a document: the first outcome that
\* is neither "ok" nor a PermissionError that is retried
RECURSIVE SaveFailure(_, _)
SaveFailure(save, attempt) ==
  IF save[attempt + 1] = "PermissionError" /\ attempt < max_retries - 1
  THEN SaveFailure(save, attempt + 1)
  ELSE save[attempt + 1]

\* the failure that ends an export in environment env ("ok" when none does)
ExportFailure(env) ==
  IF ~env.docx_available THEN "ImportError"
  ELSE IF env.exists /\ env.probe # "ok" THEN env.probe
  ELSE IF env.build # "ok" THEN env.build
  ELSE SaveFailure(env.save, 0)

\* C20: a run ended by a PermissionError of the operating system reports
\* PermissionError, and a run ended by any other failure reports False
C20_ExportFailureDistinct ==
  op = "export_to_word_file_with_custom_font" =>
    LET failure == ExportFailure(arg[2])
    IN  /\ failure = "PermissionError" => ret.result = "PermissionError"
        /\ failure \notin {"ok", "PermissionError"} => ret.result = "False"

----------------------------------------------------------------------------
(* C16: the text and the markup that copy_to_clipboard puts on the         *)
(* clipboard come from one call of process_text.                           *)

\* C16: whatever the handlers and edits before it, the data on the
\* clipboard is the plain output and the markup output of process_text for
\* one and the same raw text
C16_ClipboardConsistent ==
  clipboard # << >> =>
    \E text \in InputTexts :
      LET result == process_text(toPlainText(setPlainText(text)), fixed_format_name)
      IN  clipboard = << result[2], result[1] >>

\* a list of two entries was copied, and the input box has since been
\* edited and previewed again
C16_Witness ==
  /\ clipboard # << >>
  /\ clipboard[1] = <<"1", ".", " ", "a", "\n", "2", ".", " ", "b">>
  /\ input_text.content = <<"a">>
  /\ output_text.format = "html"
  /\ html_output_for_clipboard = << >>

----------------------------------------------------------------------------
\* the full-width marks of Chinese text: the values of half_to_full
FullWidthPunctuation ==
  {"U+FF0C", "U+3002", "U+FF1A", "U+FF1B", "U+FF1F", "U+FF01",
   "U+FF08", "U+FF09", "U+3010", "U+3011"}

(* C21: Chinese text keeps its full-width punctuation: a full-width mark   *)
(* that stands between two CJK ideographs of the line is still in the      *)
(* result of _normalize_characters.                                        *)
C21_FullWidthKeptBetweenIdeographs ==
  op = "_normalize_characters" =>
    \A k \in 2..(Len(arg) - 1) :
      (arg[k - 1] \in CJK /\ arg[k] \in FullWidthPunctuation /\ arg[k + 1] \in CJK)
        => arg[k] \in Range(ret)

----------------------------------------------------------------------------
\* the six marks that give a punctuation run the Chinese font
ChineseMarks == {"U+FF0C", "U+3002", "U+FF1A", "U+FF1B", "U+FF01", "U+FF1F"}

\* the font the rule gives a run of this text
FontByRule(text) ==
  IF AllIn(text, "cjk") THEN "SimSun"
  ELSE IF AllIn(text, "alnum_space") THEN "Times New Roman"
  ELSE IF \E c \in Range(text) : c \in ChineseMarks THEN "SimSun"
  ELSE "Times New Roman"

(* C22: every run of _apply_mixed_font_styles carries the font of its      *)
(* class: a run of CJK ideographs the Chinese font, a run of ASCII         *)
(* letters, digits and whitespace the English font, and any other run the  *)
(* Chinese font exactly if it holds one of the six marks U+FF0C U+3002     *)
(* U+FF1A U+FF1B U+FF01 U+FF1F, and the English font otherwise.            *)
C22_FontOfRun ==
  op = "_apply_mixed_font_styles" =>
    \A k \in 1..Len(SpansOf(ret, 1)) :
      SpansOf(ret, 1)[k].font = FontByRule(SpansOf(ret, 1)[k].text)

\* a run that holds a full-width comma carries the Chinese font, letter and
\* all; the space is a run of its own, and the run of the ampersand carries
\* the English font
C22_Witness ==
  /\ op = "_apply_mixed_font_styles"
  /\ arg = <<"U+FF0C", "a", " ", "&">>
  /\ SpansOf(ret, 1) =
       << [font |-> "SimSun", text |-> <<"U+FF0C", "a">>],
          [font |-> "Times New Roman", text |-> <<" ">>],
          [font |-> "Times New Roman", text |-> <<"&">>] >>

----------------------------------------------------------------------------
(* C23: the gate of steps 3 and 4.                                         *)

\* the latest of the steps 1 and 2 that succeeded is a formatting
FormatIsLatest ==
  /\ completed # << >>
  /\ completed[Len(completed)] = "process_references"

\* what the status line shows when step 3 or step 4 has acted: the copy
\* was made, or the export was run and wrote the file or failed
ActedStatus ==
  {"step 3 done", "file written", "permission denied", "export failed"}

\* what the status line shows when step 1 or 2 was rejected or has failed
RefusedStatus == {"input empty", "step 1 error", "step 2 error"}

\* C23: copy_to_clipboard and export_to_word_file act only if a formatting
\* has succeeded and no split preview has succeeded since; a split preview
\* that succeeds clears the stored markup; a preview or a formatting that
\* is rejected or fails leaves the stored markup as it was
C23_StepGating ==
  /\ [](status_label \in ActedStatus => FormatIsLatest)
  /\ [](status_label = "step 1 done" => html_output_for_clipboard = << >>)
  /\ [][status_label' \in RefusedStatus =>
          html_output_for_clipboard' = html_output_for_clipboard]_vars

\* a list was formatted, previewed again and formatted again, then copied
\* and exported; a formatting of the emptied input box has been rejected
\* since without touching the stored markup
C23_Witness ==
  /\ completed = <<"process_references", "split_preview", "process_references">>
  /\ clipboard # << >>
  /\ word_file_path # << >>
  /\ status_label = "input empty"
  /\ html_output_for_clipboard # << >>

\* a split preview succeeded before the latest formatting
PreviewBeforeLatestFormat ==
  /\ FormatIsLatest
  /\ \E i \in 1..(Len(completed) - 1) : completed[i] = "split_preview"

(* C24: copying and exporting are possible only after both steps, in       *)
(* their order: whenever copy_to_clipboard or export_to_word_file has      *)
(* acted, a split preview succeeded before the formatting whose result it  *)
(* used.                                                                   *)
C24_BothStepsInOrder ==
  status_label \in ActedStatus => PreviewBeforeLatestFormat

----------------------------------------------------------------------------
(* C25: the retry of the save.                                             *)

\* the export in environment env gets as far as saving the document
ReachesSave(env) ==
  /\ env.docx_available
  /\ ~(env.exists /\ env.probe # "ok")
  /\ env.build = "ok"

\* C25: an export that gets as far as saving calls doc.save at most 3
\* times, and again only after a PermissionError; it returns True at the
\* first attempt that succeeds, raises PermissionError after the third
\* PermissionError in a row, and returns False at the first other error;
\* every export ends in one of these three ways
C25_SaveRetry ==
  op = "export_to_word_file_with_custom_font" =>
    /\ ret.result \in {"True", "False", "PermissionError"}
    /\ ReachesSave(arg[2]) =>
         LET save == arg[2].save
             n    == ret.attempts
         IN  /\ n \in 1..3
             /\ \A k \in 1..(n - 1) : save[k] = "PermissionError"
             /\ ret.result = "True" <=> save[n] = "ok"
             /\ ret.result = "False" <=> save[n] = "OSError"
             /\ ret.result = "PermissionError" <=>
                  (n = 3 /\ save[n] = "PermissionError")

\* two refused attempts and a third that succeeds
C25_Witness ==
  /\ op = "export_to_word_file_with_custom_font"
  /\ ReachesSave(arg[2])
  /\ arg[2].save = <<"PermissionError", "PermissionError", "ok">>
  /\ ret = [result |-> "True", attempts |-> 3]

----------------------------------------------------------------------------
(* C26: the blocks of the split preview, read back from its markup.        *)

\* the indices of s, in order, whose element passes Test
IndicesWhere(s, Test(_)) == SelectSeq([k \in 1..Len(s) |-> k], Test)

\* where the blocks of the markup open: the style of the outer div of a block
BlockOpenings(markup) ==
  IndicesWhere(markup, LAMBDA k :
    markup[k] = "style=\"margin: 25px 0; border-radius: 8px; box-shadow: ...\"")

\* where the line divs of the markup open
LineOpenings(markup) ==
  IndicesWhere(markup, LAMBDA k :
    \E n \in 1..Len(BLOCK_STYLES) : markup[k] = LineStyle(BLOCK_STYLES[n]))

\* the text of the line div whose style is at index k
LineTextAt(markup, k) == Slice(markup, k + 2, FindChar(markup, k + 2, "<") - 1)

\* the lines shown in block b of the markup
RenderedBlock(markup, b) ==
  LET from == BlockOpenings(markup)[b]
      to   == IF b < Len(BlockOpenings(markup))
              THEN BlockOpenings(markup)[b + 1] ELSE Len(markup) + 1
      at   == SelectSeq(LineOpenings(markup), LAMBDA k : from < k /\ k < to)
  IN  [n \in 1..Len(at) |-> LineTextAt(markup, at[n])]

\* the number the summary announces
AnnouncedCount(markup) ==
  LET at == FindChar(markup, 1, "U+5230")
  IN  ToInt(Slice(markup, at + 2, FindChar(markup, at + 2, " ") - 1))

\* where blocks are to begin: at the first line, and at every later line
\* that is flagged
BlockStarts(lines_with_markers) ==
  IndicesWhere(lines_with_markers, LAMBDA k : k = 1 \/ lines_with_markers[k][2])

\* the lines of block b that are to be shown: the lines from its start up
\* to the next start, those that are not blank
ExpectedBlock(lines_with_markers, b) ==
  LET starts == BlockStarts(lines_with_markers)
      from   == starts[b]
      to     == IF b < Len(starts) THEN starts[b + 1] - 1
                ELSE Len(lines_with_markers)
  IN  SelectSeq([n \in 1..(to - from + 1) |-> lines_with_markers[from + n - 1][1]],
                LAMBDA l : ~IsBlankLine(l))

\* C26: the markup of format_unencoded has one block for the first line
\* and one for every later line flagged is_start, each block shows the
\* lines from its start up to the next start in their order (so every line
\* is in exactly one block), and the number announced in the summary is the
\* number of blocks rendered
C26_BlockRendering ==
  op = "format_unencoded" =>
    /\ Len(BlockOpenings(ret)) = Len(BlockStarts(arg))
    /\ \A b \in 1..Len(BlockOpenings(ret)) :
         RenderedBlock(ret, b) = ExpectedBlock(arg, b)
    /\ AnnouncedCount(ret) = Len(BlockOpenings(ret))

----------------------------------------------------------------------------
\* the CJK ideographs of a text, in their order
Ideographs(text) == SelectSeq(text, LAMBDA c : c \in CJK)

(* C27: _normalize_characters changes, removes and introduces no CJK       *)
(* ideograph: the ideographs of its result are the ideographs of the line, *)
(* in the same order.                                                      *)
C27_IdeographsPreserved ==
  op = "_normalize_characters" => Ideographs(ret) = Ideographs(arg)

----------------------------------------------------------------------------
\* the marker sequence get_formatted_split_preview hands to the formatter
PreviewMarkers(raw_text, format_name) ==
  _detect_boundary_lines(Split(process_text(raw_text, format_name)[2], "\n"))

\* C28: in the split preview every line handed to the boundary detector is
\* flagged is_start, the preview shows as many blocks as the raw text has
\* lines that are not blank, and every block holds one line, so that a
\* line without a number never joins the block of the line before it
C28_OneBlockPerLine ==
  op = "get_formatted_split_preview" =>
    /\ Len(BlockOpenings(ret)) = Len(NonBlankLines(arg[1]))
    /\ \A b \in 1..Len(BlockOpenings(ret)) : Len(RenderedBlock(ret, b)) = 1
    /\ ~IsBlankLine(arg[1]) =>
         /\ Len(PreviewMarkers(arg[1], arg[2])) = Len(NonBlankLines(arg[1]))
         /\ \A k \in 1..Len(PreviewMarkers(arg[1], arg[2])) :
              PreviewMarkers(arg[1], arg[2])[k][2] = TRUE

\* a numbered line and a line without a number behind it: two blocks
C28_Witness ==
  /\ op = "get_formatted_split_preview"
  /\ arg[1] = <<"2", ".", " ", "a", "\n", "a">>
  /\ Len(BlockOpenings(ret)) = 2
  /\ RenderedBlock(ret, 2) = << <<"2", ".", " ", "a">> >>

----------------------------------------------------------------------------
\* a text with its '&', '<' and '>' written as character references
EscapeMarkup(s) ==
  ReplaceStr(ReplaceStr(ReplaceStr(s, "&", <<"&", "a", "m", "p", ";">>),
                        "<", <<"&", "l", "t", ";">>),
             ">", <<"&", "g", "t", ";">>)

\* what the line div of block b holds when the text of entry b is shown
\* literally: its number and the text with its markup characters escaped
LiteralLine(b, entry_text) ==
  <<">">> \o ToDecimal(b) \o <<".", " ">> \o EscapeMarkup(entry_text) \o DivClose

\* the markup has the text lit behind index k
HoldsBehind(markup, k, lit) ==
  /\ k + Len(lit) <= Len(markup)
  /\ SubSeq(markup, k + 1, k + Len(lit)) = lit

(* C29: the split preview shows the text of every entry literally: the     *)
(* line div of block b of the markup of get_formatted_split_preview holds  *)
(* the text of entry b with every '<', '>' and '&' escaped, so that the    *)
(* text of an entry brings no tag and no character reference into the      *)
(* document.                                                               *)
C29_PreviewEscapesEntryText ==
  op = "get_formatted_split_preview" =>
    /\ Len(LineOpenings(ret)) = Len(EntryTexts(arg[1]))
    /\ \A b \in 1..Len(LineOpenings(ret)) :
         HoldsBehind(ret, LineOpenings(ret)[b], LiteralLine(b, EntryTexts(arg[1])[b]))

----------------------------------------------------------------------------
(* C30: the boundary detector and the numbering stripper agree on what a   *)
(* numbering marker is: _has_formatted_numbering(line) is TRUE exactly if  *)
(* _strip_numbering(line) reports was_stripped = TRUE.                     *)
C30_DetectorAgreesWithStripper ==
  op = "_strip_numbering" => (_has_formatted_numbering(arg) <=> ret[2])

\* a marker in parentheses behind a space is a marker for both
C30_Witness ==
  /\ op = "_strip_numbering"
  /\ arg = <<" ", "(", "1", ")">>
  /\ ret[2] = TRUE
  /\ _has_formatted_numbering(arg)

====
